---------------------------- MODULE Spec2Model ----------------------------
(***************************************************************************)
(* A model of tts_engines/rvc/infer/infer.py: the RVCPipeline orchestrator, *)
(* its resource cache (checkpoint, synthesis network, similarity index,    *)
(* matching engine, embedding extractor) and its conversion control flow.  *)
(*                                                                         *)
(* Python's None is the empty tuple, a present value x is <<x>>.  An       *)
(* object attribute that holds a tensor, a network or a matching engine is *)
(* a record of what it was built from.  A method is an operator from the   *)
(* instance before the call (and the outcomes of the collaborators it      *)
(* calls) to a record [s, exc, ev]: the instance after the call, whether   *)
(* an exception left the method, and the collaborator calls it made.       *)
(***************************************************************************)
EXTENDS Integers, Sequences, FiniteSets, TLC

VARIABLES pipeline, last

vars == <<pipeline, last>>

None == <<>>
Some(x) == <<x>>

----------------------------------------------------------------------------
(* Bounds                                                                  *)

\* training_data_size ranges over 1..MaxTrainingDataSize
MaxTrainingDataSize == 2

\* the splitter produces at most MaxChunks chunk files
MaxChunks == 2

\* the methods of one instance are called at most MaxCalls times
MaxCalls == 2

\* and at most MaxCacheCalls times where only the cache's methods are called
MaxCacheCalls == 4

----------------------------------------------------------------------------
(* The storage the loaders read                                            *)

\* The checkpoint artifacts on disk, by path; a path outside the domain
\* cannot be loaded.  The optional keys f0 and version may be absent.  config
\* is the hyperparameter tuple: config[-1] (here config[4]) is the target
\* sample rate and config[-3] (here config[2]) the stored speaker count;
\* emb_g is the leading dimension of weight["emb_g.weight"].
CheckpointFiles ==
  [p \in {"A.pth", "B.pth", "C.pth"} |->
     CASE p = "A.pth" -> [config |-> <<"hpA", 109, "40k", 40000>>, emb_g |-> 1,
                          f0 |-> None, version |-> None, weight |-> "wA"]
       [] p = "B.pth" -> [config |-> <<"hpB", 109, "48k", 48000>>, emb_g |-> 2,
                          f0 |-> Some(1), version |-> Some("v2"), weight |-> "wB"]
       [] p = "C.pth" -> [config |-> <<"hpC", 109, "40k", 40000>>, emb_g |-> 1,
                          f0 |-> Some(0), version |-> Some("v2"), weight |-> "wC"]]

\* The paths a caller passes as weight_root: the artifacts and a missing file.
CheckpointPaths == DOMAIN CheckpointFiles \cup {"missing.pth"}

\* A string a collaborator inspects character by character is a sequence of
\* tokens: the characters " ", '"' and "\n", the words "trained" and
\* "added", and other words free of those.
Str(word) == <<word>>

\* The persisted vector indexes, by path: dimensionality d and the vectors.
IndexFiles ==
  [p \in {Str("I1.index"), Str("I2.index")} |->
     CASE p = Str("I1.index") -> [d |-> 256, vectors |-> <<"a1">>]
       [] p = Str("I2.index") -> [d |-> 768, vectors |-> <<"b1", "b2", "b3">>]]

\* The values a caller passes as file_index: None, the indexes and a
\* missing file.
IndexPaths == {None} \cup {Some(p) : p \in DOMAIN IndexFiles \cup {Str("missing.index")}}

TrainingDataSizes == 1..MaxTrainingDataSize

\* The model input rate, and the least rate a resample request may name
SourceRate == 16000

Min(a, b) == IF a <= b THEN a ELSE b

----------------------------------------------------------------------------
(* Results of a method                                                     *)

Ok(s, ev) == [s |-> s, exc |-> FALSE, ev |-> ev]
Raise(s, ev) == [s |-> s, exc |-> TRUE, ev |-> ev]

\* A collaborator call that returned: its name, the chunk it served (0: the
\* outer call) and what it was given.
Event(e, at, a) == [e |-> e, at |-> at, a |-> a, raised |-> FALSE]

\* A collaborator call that raised
Failed(e, at, a) == [e |-> e, at |-> at, a |-> a, raised |-> TRUE]

\* Whether the calls ev include one of collaborator e
Called(ev, e) == \E i \in DOMAIN ev : ev[i].e = e

\* Whether the calls ev include one of collaborator e for chunk at that
\* returned
Returned(ev, e, at) == \E i \in DOMAIN ev : ev[i].e = e /\ ev[i].at = at /\ ~ev[i].raised

\* cpt.get(key, default)
Get(opt, default) == IF opt = None THEN default ELSE opt[1]

----------------------------------------------------------------------------
(* RVCPipeline: construction, teardown and the resource cache               *)

\* RVCPipeline.__init__
RVCPipelineInit ==
  [config |-> Some("Config"),
   hubert_model |-> None,
   tgt_sr |-> None,
   net_g |-> None,
   vc |-> None,
   cpt |-> None,
   version |-> None,
   synth_version |-> None,
   n_spk |-> None,
   debug_rvc |-> TRUE,
   if_f0 |-> None,
   file_index |-> None,
   train_data |-> None,
   data |-> None,
   training_data_size |-> None,
   d |-> None,
   person |-> None]

\* RVCPipeline.clean_up
clean_up(s) ==
  Ok([s EXCEPT !.hubert_model = None, !.tgt_sr = None, !.net_g = None,
               !.vc = None, !.cpt = None, !.version = None, !.n_spk = None,
               !.config = None, !.synth_version = None, !.if_f0 = None,
               !.file_index = None, !.train_data = None, !.data = None,
               !.training_data_size = None, !.d = None, !.person = None],
     <<Event("torch.cuda.empty_cache", 0, <<>>)>>)

\* The network class load_synthesizer selects for (version, if_f0)
SynthesizerClass(version, if_f0) ==
  IF version = Some("v1")
  THEN IF if_f0 = 1 THEN "SynthesizerTrnMs256NSFsid" ELSE "SynthesizerTrnMs256NSFsid_nono"
  ELSE IF if_f0 = 1 THEN "SynthesizerTrnMs768NSFsid" ELSE "SynthesizerTrnMs768NSFsid_nono"

\* RVCPipeline.load_synthesizer
load_synthesizer(s, if_f0) ==
  IF s.if_f0 # Some(if_f0)
  THEN
    LET known == s.version \in {Some("v1"), Some("v2")}
    IN
    \* the pitch-conditioned constructors are passed self.config.is_half
    IF known /\ if_f0 = 1 /\ s.config = None THEN Raise(s, <<>>)
    ELSE
      LET s1 == IF known
                THEN [s EXCEPT !.net_g = Some([cls |-> SynthesizerClass(s.version, if_f0),
                                               config |-> s.cpt[1].config,
                                               weight |-> None, device |-> None])]
                ELSE s
          ev1 == IF known THEN <<Event("build_net", 0, SynthesizerClass(s.version, if_f0))>> ELSE <<>>
          s2 == [s1 EXCEPT !.if_f0 = Some(if_f0)]
      IN
      IF s2.net_g = None THEN Raise(s2, ev1)              \* None.load_state_dict
      ELSE
        LET s3 == [s2 EXCEPT !.net_g = Some([s2.net_g[1] EXCEPT !.weight = Some(s2.cpt[1].weight)])]
            ev3 == ev1 \o <<Event("load_state_dict", 0, <<>>)>>
        IN
        IF s3.config = None THEN Raise(s3, ev3)           \* None.device
        ELSE Ok([s3 EXCEPT !.net_g = Some([s3.net_g[1] EXCEPT !.device = s3.config])], ev3)
  ELSE Ok(s, <<>>)

\* The body of load_person once the path differs (lines 165-171): the cache
\* key is replaced first, then the artifact is read and unpacked.
load_checkpoint(s, weight_root) ==
  LET s1 == [s EXCEPT !.person = Some(weight_root)]
  IN
  IF weight_root \notin DOMAIN CheckpointFiles THEN Raise(s1, <<Failed("torch.load", 0, weight_root)>>)
  ELSE
    LET file == CheckpointFiles[weight_root]
        cpt == [config |-> [file.config EXCEPT ![2] = file.emb_g],
                weight |-> file.weight, f0 |-> file.f0, version |-> file.version]
        s2 == [s1 EXCEPT !.cpt = Some(cpt), !.tgt_sr = Some(file.config[4]),
                         !.version = Some(Get(file.version, "v1"))]
        r == load_synthesizer(s2, Get(file.f0, 1))
    IN [r EXCEPT !.ev = <<Event("torch.load", 0, weight_root)>> \o r.ev]

\* load_person without the path comparison: every call loads.
load_person_always(s, weight_root) ==
  load_checkpoint(s, weight_root)

\* RVCPipeline.load_person
load_person(s, weight_root) ==
  IF s.person # Some(weight_root)
  THEN load_checkpoint(s, weight_root)
  ELSE Ok(s, <<>>)

\* VC(tgt_sr, config[, data, d, train_data, False]): the matching engine,
\* a record of what it was constructed from.
VC(tgt_sr, config, data, d, train_data) ==
  [tgt_sr |-> tgt_sr, config |-> config, data |-> data, d |-> d, train_data |-> train_data]

\* Lines 113-122 of load_index_file: clear, reload or keep the index.
read_index_step(s, file_index) ==
  IF file_index = None
  THEN Ok([s EXCEPT !.file_index = None, !.data = None, !.d = None, !.train_data = None], <<>>)
  ELSE IF s.file_index # file_index
  THEN LET s1 == [s EXCEPT !.file_index = file_index]
       IN IF file_index[1] \notin DOMAIN IndexFiles THEN Raise(s1, <<Failed("faiss.read_index", 0, file_index)>>)
          ELSE Ok([s1 EXCEPT !.d = Some(IndexFiles[file_index[1]].d),
                             !.data = Some(IndexFiles[file_index[1]].vectors)],
                  <<Event("faiss.read_index", 0, file_index)>>)
  ELSE Ok(s, <<>>)

\* train_data_step that keeps the matching engine it finds.
train_data_step_keeps_vc(s, training_data_size) ==
  IF s.training_data_size # Some(training_data_size) /\ s.file_index # None
  THEN LET s1 == [s EXCEPT !.training_data_size = Some(training_data_size)]
       IN IF s1.data = None THEN Raise(s1, <<>>)
          ELSE Ok([s1 EXCEPT !.train_data =
                               Some(SubSeq(s1.data[1], 1, Min(training_data_size, Len(s1.data[1]))))],
                  <<>>)
  ELSE Ok(s, <<>>)

\* Lines 124-131 of load_index_file: recompute train_data, drop the engine.
train_data_step(s, training_data_size) ==
  IF s.training_data_size # Some(training_data_size) /\ s.file_index # None
  THEN LET s1 == [s EXCEPT !.training_data_size = Some(training_data_size)]
       IN IF s1.data = None THEN Raise(s1, <<>>)          \* len(None)
          ELSE Ok([s1 EXCEPT !.train_data =
                               Some(SubSeq(s1.data[1], 1, Min(training_data_size, Len(s1.data[1])))),
                             !.vc = None],
                  <<>>)
  ELSE Ok(s, <<>>)

\* Lines 133-137 of load_index_file: build the matching engine if absent.
\* vcOk is the outcome of the VC constructor when it is handed None as its
\* configuration (after clean_up).
build_vc_step(s, vcOk) ==
  IF s.vc = None
  THEN IF s.config = None /\ ~vcOk THEN Raise(s, <<Failed("VC", 0, <<>>)>>)
       ELSE IF s.data # None /\ s.d # None /\ s.train_data # None
       THEN Ok([s EXCEPT !.vc = Some(VC(s.tgt_sr, s.config, s.data, s.d, s.train_data))], <<Event("VC", 0, <<>>)>>)
       ELSE Ok([s EXCEPT !.vc = Some(VC(s.tgt_sr, s.config, None, None, None))], <<Event("VC", 0, <<>>)>>)
  ELSE Ok(s, <<>>)

\* Lines 139-140 of load_index_file: resolve the speaker count.
n_spk_step(s) ==
  IF s.n_spk = None
  THEN IF s.cpt = None THEN Raise(s, <<>>)                \* None["config"]
       ELSE Ok([s EXCEPT !.n_spk = Some(s.cpt[1].config[2])], <<>>)
  ELSE Ok(s, <<>>)

\* r, then (unless r raised) the step whose result from r.s is r2
Then(r, r2) == IF r.exc THEN r ELSE [r2 EXCEPT !.ev = r.ev \o r2.ev]

\* RVCPipeline.load_index_file
load_index_file(s, file_index, training_data_size, vcOk) ==
  LET r1 == read_index_step(s, file_index)
      r2 == Then(r1, train_data_step(r1.s, training_data_size))
      r3 == Then(r2, build_vc_step(r2.s, vcOk))
  IN Then(r3, n_spk_step(r3.s))

\* RVCPipeline.get_vc
get_vc(s, weight_root, file_index, training_data_size, vcOk) ==
  LET r1 == load_person(s, weight_root)
  IN Then(r1, load_index_file(r1.s, file_index, training_data_size, vcOk))

----------------------------------------------------------------------------
(* Python values that travel through positional arguments                  *)

PyInt(n) == [py |-> "int", v |-> n]
PyStr(w) == [py |-> "str", v |-> w]
PyBool(b) == [py |-> "bool", v |-> b]
PyNone == [py |-> "NoneType", v |-> 0]

\* The decimal strings int() parses here
Numerals == [w \in {"0", "2"} |-> IF w = "0" THEN 0 ELSE 2]

\* int(x), line 192: None when it raises
int(x) ==
  CASE x.py = "int" -> Some(x)
    [] x.py = "bool" -> Some(PyInt(IF x.v THEN 1 ELSE 0))
    [] x.py = "str" /\ x.v \in DOMAIN Numerals -> Some(PyInt(Numerals[x.v]))
    [] OTHER -> None

RECURSIVE lstrip(_, _)
\* str.lstrip(chars)
lstrip(str, chars) ==
  IF str # <<>> /\ Head(str) \in chars THEN lstrip(Tail(str), chars) ELSE str

RECURSIVE rstrip(_, _)
\* str.rstrip(chars)
rstrip(str, chars) ==
  IF str # <<>> /\ str[Len(str)] \in chars
  THEN rstrip(SubSeq(str, 1, Len(str) - 1), chars)
  ELSE str

\* str.strip(chars)
strip(str, chars) == rstrip(lstrip(str, chars), chars)

\* str.replace(old, new), for a word old
replace(str, old, new) == [i \in 1..Len(str) |-> IF str[i] = old THEN new ELSE str[i]]

\* Lines 206-213 and 221-223: the chain of strips
strip_chain(str) ==
  strip(strip(strip(strip(strip(str, {" "}), {"\""}), {"\n"}), {"\""}), {" "})

\* Lines 206-213: the normalisation of the caller's index path
normalize_file_index(str) == replace(strip_chain(str), "trained", "added")

----------------------------------------------------------------------------
(* The conversion orchestrator                                             *)

\* The parameters of voice_conversion after self, in order (lines 175-190)
Params ==
  <<"sid", "input_audio_path", "f0_up_key", "f0_file", "f0_method", "file_index",
    "index_rate", "resample_sr", "rms_mix_rate", "protect", "hop_length",
    "output_path", "split_audio", "f0autotune", "filter_radius", "embedder_model">>

\* Their default values (lines 175-190)
Defaults ==
  [sid |-> 0, input_audio_path |-> None, f0_up_key |-> PyNone, f0_file |-> None,
   f0_method |-> PyNone, file_index |-> None, index_rate |-> PyNone, resample_sr |-> 0,
   rms_mix_rate |-> PyNone, protect |-> PyNone, hop_length |-> PyNone, output_path |-> None,
   split_audio |-> PyBool(FALSE), f0autotune |-> FALSE, filter_radius |-> PyNone,
   embedder_model |-> PyNone]

\* Python's binding of positional arguments to parameters
Bind(positional) ==
  [n \in DOMAIN Defaults |->
     LET i == CHOOSE k \in 1..Len(Params) : Params[k] = n
     IN IF i <= Len(positional) THEN positional[i] ELSE Defaults[n]]

\* Whether the environment E makes the collaborator step raise when called
\* for chunk at
Failing(E, step, at) == E.fault = <<step, at>>

\* The path of the j-th chunk file the splitter leaves in its directory
ChunkPath(j) == <<"chunk.wav", j>>

\* A result of voice_conversion: returned values are flattened to a record,
\* (sr, audio) is [sr, audio], (None, None) has neither, ("Error with Split
\* Audio", None) and the bare string f"Error {error}" carry msg.
Return(py, msg, sr, audio) == [py |-> py, msg |-> msg, sr |-> sr, audio |-> audio]
NoneNone == Return("tuple", None, None, None)
SplitError == Return("tuple", Some("Error with Split Audio"), None, None)
BatchError == Return("str", Some("Error {error}"), None, None)
NoReturn == Return("raised", None, None, None)

\* RVCPipeline.load_hubert
load_hubert(s, embedder_model, E, at) ==
  IF Failing(E, "load_embedding", at)
  THEN Raise(s, <<Failed("load_embedding", at, embedder_model)>>)
  ELSE
    LET s1 == [s EXCEPT !.hubert_model = Some([model |-> embedder_model, device |-> None])]
    IN IF s1.config = None                                \* None.device
       THEN Raise(s1, <<Event("load_embedding", at, embedder_model)>>)
       ELSE Ok([s1 EXCEPT !.hubert_model = Some([model |-> embedder_model, device |-> s1.config])],
               <<Event("load_embedding", at, embedder_model)>>)

\* decode_step that loads the extractor in every call.
decode_step_reloads(s, a, E, at) ==
  LET r1 == IF Failing(E, "load_audio", at)
            THEN Raise(s, <<Failed("load_audio", at, a.input_audio_path)>>)
            ELSE Ok(s, <<Event("load_audio", at, a.input_audio_path)>>)
      r2 == Then(r1, load_hubert(r1.s, a.embedder_model, E, at))
  IN Then(r2, IF r2.s.cpt = None THEN Raise(r2.s, <<>>) ELSE Ok(r2.s, <<>>))

\* Lines 194-204: decode the input, load the extractor on first use, read
\* the f0 flag of the cached checkpoint
decode_step(s, a, E, at) ==
  LET r1 == IF Failing(E, "load_audio", at)
            THEN Raise(s, <<Failed("load_audio", at, a.input_audio_path)>>)
            ELSE Ok(s, <<Event("load_audio", at, a.input_audio_path)>>)
      r2 == Then(r1, IF r1.s.hubert_model = None
                     THEN load_hubert(r1.s, a.embedder_model, E, at)
                     ELSE Ok(r1.s, <<>>))
  IN Then(r2, IF r2.s.cpt = None THEN Raise(r2.s, <<>>) ELSE Ok(r2.s, <<>>))

\* Lines 214-215: adopt the requested rate as the target rate
adopt_resample_sr(s, resample_sr) ==
  IF s.tgt_sr # Some(resample_sr) /\ resample_sr >= SourceRate
  THEN [s EXCEPT !.tgt_sr = Some(resample_sr)]
  ELSE s

\* Lines 285-296: resample, persist, return
finish(s, audio_opt, a, E, at) ==
  LET resample == s.tgt_sr # Some(a.resample_sr) /\ a.resample_sr >= SourceRate /\ a.resample_sr # 0
      r1 == IF resample
            THEN IF Failing(E, "librosa.resample", at)
                 THEN Raise(s, <<Failed("librosa.resample", at, <<s.tgt_sr, a.resample_sr>>)>>)
                 ELSE Ok([s EXCEPT !.tgt_sr = Some(a.resample_sr)],
                         <<Event("librosa.resample", at, <<s.tgt_sr, a.resample_sr>>)>>)
            ELSE Ok(s, <<>>)
      audio == IF resample
               THEN [audio_opt EXCEPT !.resampled = Some(<<s.tgt_sr, a.resample_sr>>)]
               ELSE audio_opt
      r2 == Then(r1, IF a.output_path # None
                     THEN IF Failing(E, "sf.write", at)
                          THEN Raise(r1.s, <<Failed("sf.write", at, <<a.output_path, r1.s.tgt_sr>>)>>)
                          ELSE Ok(r1.s, <<Event("sf.write", at, <<a.output_path, r1.s.tgt_sr>>)>>)
                     ELSE Ok(r1.s, <<>>))
  IN [s |-> r2.s, exc |-> r2.exc, ev |-> r2.ev,
      ret |-> IF r2.exc THEN NoReturn ELSE Return("tuple", None, r2.s.tgt_sr, Some(audio))]

\* The result r, preceded by the calls ev made before it
After(ev, r) == [r EXCEPT !.ev = ev \o r.ev]

\* An exception leaving the statements of the try body
Raised(s, ev) == [s |-> s, exc |-> TRUE, ev |-> ev, ret |-> NoReturn]

\* Lines 262-283: the direct branch, one call of the synthesis pipeline.
\* The waveform it returns is a record of the network that rendered it and
\* of the rates the pipeline was given.
direct_branch(s, a, E, at) ==
  IF s.vc = None THEN Raised(s, <<>>)                     \* None.pipeline
  ELSE
    LET given == [hubert_model |-> s.hubert_model, net_g |-> s.net_g, sid |-> a.sid,
                  input_audio_path |-> a.input_audio_path, f0_up_key |-> a.f0_up_key,
                  f0_method |-> a.f0_method, file_index |-> a.file_index,
                  index_rate |-> a.index_rate, if_f0 |-> Get(s.cpt[1].f0, 1),
                  filter_radius |-> a.filter_radius, tgt_sr |-> s.tgt_sr,
                  resample_sr |-> a.resample_sr, rms_mix_rate |-> a.rms_mix_rate,
                  version |-> s.version, protect |-> a.protect,
                  hop_length |-> a.hop_length, f0autotune |-> a.f0autotune,
                  f0_file |-> a.f0_file]
    IN IF Failing(E, "vc.pipeline", at) \/ s.net_g = None
       THEN Raised(s, <<Failed("vc.pipeline", at, given)>>)
       ELSE After(<<Event("vc.pipeline", at, given)>>,
                  finish(s, [net_g |-> s.net_g[1].config, vc |-> s.vc[1].tgt_sr,
                             tgt_sr |-> s.tgt_sr, resample_sr |-> a.resample_sr,
                             resampled |-> None], a, E, at))

RECURSIVE voice_conversion(_, _, _, _)
RECURSIVE convert_chunks(_, _, _, _, _)

\* chunk_args that passes the caller's split_audio on.
chunk_args_keeps_split(a, path) ==
  Bind(<<a.sid, Some(path), a.f0_up_key, None, a.f0_method, a.file_index,
         a.index_rate, a.resample_sr, a.rms_mix_rate, a.protect,
         a.hop_length, Some(path), a.split_audio, a.f0autotune,
         a.embedder_model>>)

\* Lines 233-249: the arguments of the recursive call for one chunk path,
\* fifteen positional values
chunk_args(a, path) ==
  Bind(<<a.sid, Some(path), a.f0_up_key, None, a.f0_method, a.file_index,
         a.index_rate, a.resample_sr, a.rms_mix_rate, a.protect,
         a.hop_length, Some(path), PyBool(FALSE), a.f0autotune,
         a.embedder_model>>)

\* Lines 233-249: the recursive call as a statement, r its result: what it
\* returns is dropped
chunk_call(r, chunk, j) ==
  [s |-> r.s, exc |-> r.exc,
   ev |-> r.ev \o <<Event("voice_conversion", j, [args |-> chunk, ret |-> r.ret])>>]

\* Lines 232-249: the loop of recursive calls, from the j-th path on; exc
\* tells whether a call raised
convert_chunks(s, a, E, paths, j) ==
  IF j > Len(paths) THEN Ok(s, <<>>)
  ELSE
    LET r == chunk_call(voice_conversion(s, chunk_args(a, paths[j]), E, j),
                        chunk_args(a, paths[j]), j)
    IN Then(r, convert_chunks(r.s, a, E, paths, j + 1))

\* Lines 250-259 and 285-296: after the loop, whose result is rc
merge_step(rc, a, E, at, paths) ==
  IF rc.exc THEN [s |-> rc.s, exc |-> FALSE, ev |-> rc.ev, ret |-> BatchError]
  ELSE IF Failing(E, "merge_audio", at)
  THEN Raised(rc.s, rc.ev \o <<Failed("merge_audio", at, a.input_audio_path)>>)
  ELSE IF Failing(E, "os.remove", at)
  THEN Raised([rc.s EXCEPT !.tgt_sr = Some(E.merge_sr)],
              rc.ev \o <<Event("merge_audio", at, a.input_audio_path),
                         Failed("os.remove", at, a.input_audio_path)>>)
  ELSE After(rc.ev \o <<Event("merge_audio", at, a.input_audio_path),
                        Event("os.remove", at, a.input_audio_path)>>,
             finish([rc.s EXCEPT !.tgt_sr = Some(E.merge_sr)],
                    [merged |-> paths, rate |-> E.merge_sr, resampled |-> None],
                    a, E, at))

\* process_audio(input_audio_path), line 218: what the splitter reports for
\* the input of the call serving chunk at.  For the caller's file (at = 0) it
\* is the environment's report; a chunk file is a single segment already, and
\* splitting it leaves no directory.
process_audio(E, at) ==
  IF at = 0 THEN E.split ELSE [result |-> "Finish", new_dir_path |-> <<>>, chunks |-> 0]

\* split_branch that goes on after the splitter reported "Error".
split_branch_ignores_error(s, a, E, at) ==
  LET paths == [j \in 1..MaxChunks |-> ChunkPath(j)]
  IN After(<<Event("process_audio", at, a.input_audio_path)>>,
           merge_step(convert_chunks(s, a, E, paths, 1), a, E, at, paths))

\* Lines 216-259: the segmentation branch
split_branch(s, a, E, at) ==
  LET ev1 == <<Event("process_audio", at, a.input_audio_path)>>
      paths == [j \in 1..process_audio(E, at).chunks |-> ChunkPath(j)]
  IN
  IF process_audio(E, at).result = "Error"
  THEN [s |-> s, exc |-> FALSE, ev |-> ev1, ret |-> SplitError]
  ELSE IF strip_chain(process_audio(E, at).new_dir_path) = <<>>   \* paths is unbound
  THEN [s |-> s, exc |-> FALSE, ev |-> ev1, ret |-> BatchError]
  ELSE After(ev1, merge_step(convert_chunks(s, a, E, paths, 1), a, E, at, paths))

\* Lines 206-296: from the normalisation of file_index on, r1 the result of
\* the steps before it
branch_step(r1, a, E, at) ==
  IF r1.exc THEN Raised(r1.s, r1.ev)
  ELSE IF a.file_index = None THEN Raised(r1.s, r1.ev)    \* None.strip
  ELSE
    LET a1 == [a EXCEPT !.file_index = Some(normalize_file_index(a.file_index[1]))]
    IN After(r1.ev, IF a1.split_audio = PyStr("True")
                    THEN split_branch(adopt_resample_sr(r1.s, a.resample_sr), a1, E, at)
                    ELSE direct_branch(adopt_resample_sr(r1.s, a.resample_sr), a1, E, at))

\* Lines 194-296: the body of the try statement
try_body(s, a, E, at) == branch_step(decode_step(s, a, E, at), a, E, at)

\* Lines 298-300: the handler of the try statement, r the result of its body
except_step(r) ==
  IF r.exc THEN [s |-> r.s, exc |-> FALSE, ev |-> r.ev, ret |-> NoneNone] ELSE r

\* RVCPipeline.voice_conversion
voice_conversion(s, a, E, at) ==
  IF int(a.f0_up_key) = None THEN Raised(s, <<>>)
  ELSE except_step(try_body(s, [a EXCEPT !.f0_up_key = int(a.f0_up_key)[1]], E, at))

\* The values float() parses here
FloatLiterals == {"0.75", "0.33", "1"}

\* float(x), lines 344-346: None when it raises
float(x) ==
  CASE x.py = "float" -> Some(x)
    [] x.py = "int" -> Some([py |-> "float", v |-> x.v])
    [] x.py = "str" /\ x.v \in FloatLiterals -> Some([py |-> "float", v |-> x.v])
    [] OTHER -> None

\* Lines 355-360: after the call of voice_conversion, whose result is r2
log_step(r2, a, debug_rvc) ==
  LET ev2 == r2.ev \o <<Event("voice_conversion", 0, [args |-> a, ret |-> r2.ret])>>
  IN [s |-> r2.s, exc |-> FALSE,
      ev |-> ev2 \o (IF r2.exc
                     THEN <<Event("logger.exception", 0, "Voice conversion failed")>>
                     ELSE IF debug_rvc
                     THEN <<Event("logger.debug", 0, "Conversion completed")>>
                     ELSE <<>>)]

\* Lines 335-360: the try statement of infer_pipeline, r1 the result of
\* get_vc before it
convert_step(r1, q, E) ==
  IF r1.exc THEN r1
  ELSE
    IF float(q.index_rate) = None \/ float(q.rms_mix_rate) = None \/ float(q.protect) = None
    THEN [s |-> r1.s, exc |-> FALSE,
          ev |-> r1.ev \o <<Event("logger.exception", 0, "Voice conversion failed")>>]
    ELSE
      LET a == [Defaults EXCEPT !.sid = 0, !.input_audio_path = q.audio_input_path,
                                !.f0_up_key = q.f0up_key, !.f0_file = None,
                                !.f0_method = q.f0method, !.file_index = q.index_path,
                                !.index_rate = float(q.index_rate)[1],
                                !.rms_mix_rate = float(q.rms_mix_rate)[1],
                                !.protect = float(q.protect)[1], !.hop_length = q.hop_length,
                                !.output_path = q.audio_output_path,
                                !.split_audio = q.split_audio, !.f0autotune = q.f0autotune,
                                !.filter_radius = q.filter_radius,
                                !.embedder_model = q.embedder_model]
      IN After(r1.ev, log_step(voice_conversion(r1.s, a, E, 0), a, q.debug_rvc))

\* RVCPipeline.infer_pipeline: always returns None; exc tells whether an
\* exception reached the caller
infer_pipeline(s, q, E) ==
  LET file_index == IF q.index_path = None \/ strip(q.index_path[1], {" ", "\n", "\t"}) = <<>>
                    THEN None
                    ELSE q.index_path
  IN convert_step(get_vc([s EXCEPT !.debug_rvc = q.debug_rvc], q.model_path, file_index,
                         q.training_data_size, E.vcOk),
                  q, E)

----------------------------------------------------------------------------
(* The callers' inputs and the collaborators' outcomes                     *)

\* What the splitter may report: failure, an empty directory name, or a
\* directory holding up to MaxChunks chunk files
Splits ==
  {[result |-> "Error", new_dir_path |-> <<>>, chunks |-> 0],
   [result |-> "Finish", new_dir_path |-> <<>>, chunks |-> 0]}
  \cup {[result |-> "Finish", new_dir_path |-> <<" ", "dir">>, chunks |-> n] : n \in 1..MaxChunks}

\* The sample rates the merge collaborator may report
MergeRates == {40000, 44100}

\* An environment: the collaborator call that raises (at most one in a
\* call), the splitter's report, the rate the merge reports, and whether the
\* VC constructor accepts None as its configuration
Env(fault, split, merge_sr) == [fault |-> fault, split |-> split, merge_sr |-> merge_sr, vcOk |-> TRUE]

\* The environments of a call that does not split
DirectEnvs ==
  {Env(f, [result |-> "Error", new_dir_path |-> <<>>, chunks |-> 0], 40000) :
     f \in {None} \cup {<<st, 0>> : st \in {"load_audio", "load_embedding", "vc.pipeline", "sf.write"}}}

\* The environments of a call that splits
SplitEnvs ==
  UNION {IF sp.chunks = 0
         THEN {Env(None, sp, 40000)}
         ELSE {Env(None, sp, m) : m \in MergeRates}
              \cup {Env(<<st, j>>, sp, 40000) : st \in {"vc.pipeline", "sf.write"}, j \in 1..sp.chunks}
              \cup {Env(<<st, 0>>, sp, 44100) : st \in {"merge_audio", "sf.write"}} :
         sp \in Splits}

Envs(split_audio) == IF split_audio = PyStr("True") THEN SplitEnvs ELSE DirectEnvs

\* The usual arguments of voice_conversion
ConvertBase ==
  [Defaults EXCEPT !.input_audio_path = Some(<<"in.wav", 0>>), !.f0_up_key = PyInt(2),
                   !.f0_method = PyStr("rmvpe"),
                   !.file_index = Some(<<" ", "\"", "I1_", "trained", ".index", "\"", " ">>),
                   !.index_rate = [py |-> "float", v |-> "0.75"],
                   !.rms_mix_rate = [py |-> "float", v |-> "1"],
                   !.protect = [py |-> "float", v |-> "0.33"],
                   !.hop_length = PyInt(128),
                   !.output_path = Some(<<"out.wav", 0>>), !.split_audio = PyStr("False"),
                   !.filter_radius = PyInt(3), !.embedder_model = PyStr("contentvec")]

\* The arguments callers pass to voice_conversion: the usual ones, or those
\* with one argument changed, or a split with a resample request
ConvertArgs ==
  {ConvertBase,
   [ConvertBase EXCEPT !.f0_up_key = PyStr("abc")],
   [ConvertBase EXCEPT !.file_index = None],
   [ConvertBase EXCEPT !.resample_sr = 22050],
   [ConvertBase EXCEPT !.embedder_model = PyStr("hubert")],
   [ConvertBase EXCEPT !.split_audio = PyStr("True")],
   [ConvertBase EXCEPT !.split_audio = PyStr("True"), !.resample_sr = 22050]}

\* The usual request to infer_pipeline
InferBase ==
  [f0up_key |-> PyInt(2), filter_radius |-> PyInt(3), index_rate |-> PyStr("0.75"),
   rms_mix_rate |-> PyStr("1"), protect |-> PyStr("0.33"), hop_length |-> PyInt(128),
   f0method |-> PyStr("rmvpe"), audio_input_path |-> Some(<<"in.wav", 0>>),
   audio_output_path |-> Some(<<"out.wav", 0>>), model_path |-> "A.pth",
   index_path |-> Some(Str("I1.index")), split_audio |-> PyStr("False"),
   f0autotune |-> FALSE, embedder_model |-> PyStr("contentvec"),
   training_data_size |-> 2, debug_rvc |-> TRUE]

\* The requests callers pass to infer_pipeline: the usual one, or that with
\* one parameter changed
InferRequests ==
  {InferBase,
   [InferBase EXCEPT !.f0up_key = PyStr("abc")],
   [InferBase EXCEPT !.index_rate = PyStr("high")],
   [InferBase EXCEPT !.model_path = "missing.pth"],
   [InferBase EXCEPT !.model_path = "B.pth"],
   [InferBase EXCEPT !.index_path = None],
   [InferBase EXCEPT !.index_path = Some(<<" ">>)],
   [InferBase EXCEPT !.index_path = Some(Str("missing.index"))],
   [InferBase EXCEPT !.split_audio = PyStr("True")],
   [InferBase EXCEPT !.embedder_model = PyStr("hubert")],
   [InferBase EXCEPT !.debug_rvc = FALSE]}

----------------------------------------------------------------------------
(* The state machine: one action per public method of the instance         *)

Init ==
  /\ pipeline = RVCPipelineInit
  /\ last = [op |-> "__init__", exc |-> FALSE, ev |-> <<>>, calls |-> 0]

\* get_vc with arguments drawn from the given sets
GetVcOver(weight_roots, file_indexes, training_data_sizes) ==
  \E weight_root \in weight_roots, file_index \in file_indexes,
     training_data_size \in training_data_sizes,
     vcOk \in (IF pipeline.config = None THEN BOOLEAN ELSE {TRUE}) :
    LET r == get_vc(pipeline, weight_root, file_index, training_data_size, vcOk)
    IN /\ pipeline' = r.s
       /\ last' = [op |-> "get_vc", weight_root |-> weight_root, file_index |-> file_index,
                   training_data_size |-> training_data_size,
                   exc |-> r.exc, ev |-> r.ev, calls |-> last.calls + 1,
                   \* the cache keys the call found
                   pre |-> [person |-> pipeline.person, file_index |-> pipeline.file_index,
                            training_data_size |-> pipeline.training_data_size],
                   \* the call before was get_vc, returned, and had these arguments
                   again |-> /\ last.op = "get_vc"
                             /\ ~last.exc
                             /\ last.weight_root = weight_root
                             /\ last.file_index = file_index
                             /\ last.training_data_size = training_data_size]

\* get_vc with any arguments
GetVc == GetVcOver(CheckpointPaths, IndexPaths, TrainingDataSizes)

\* get_vc as the callers of voice_conversion use it, before a conversion
EnsureReady == GetVcOver({"A.pth", "B.pth"}, {None, Some(Str("I1.index"))}, {2})

CleanUp ==
  LET r == clean_up(pipeline)
  IN /\ pipeline' = r.s
     /\ last' = [op |-> "clean_up", exc |-> r.exc, ev |-> r.ev, calls |-> last.calls + 1]

VoiceConversion ==
  \E a \in ConvertArgs :
    \E E \in Envs(a.split_audio) :
      LET r == voice_conversion(pipeline, a, E, 0)
      IN /\ pipeline' = r.s
         /\ last' = [op |-> "voice_conversion", a |-> a, E |-> E, exc |-> r.exc,
                     ret |-> r.ret, ev |-> r.ev, calls |-> last.calls + 1]

InferPipeline ==
  \E q \in InferRequests :
    \E E \in Envs(q.split_audio), vcOk \in (IF pipeline.config = None THEN BOOLEAN ELSE {TRUE}) :
      LET r == infer_pipeline(pipeline, q, [E EXCEPT !.vcOk = vcOk])
      IN /\ pipeline' = r.s
         /\ last' = [op |-> "infer_pipeline", q |-> q, E |-> E, exc |-> r.exc,
                     ev |-> r.ev, calls |-> last.calls + 1]

\* Any method, called by the single caller of the instance
Next ==
  /\ last.calls < MaxCalls
  /\ (EnsureReady \/ CleanUp \/ VoiceConversion \/ InferPipeline)

Spec == Init /\ [][Next]_vars

\* The resource cache alone: ensure-ready calls and teardowns
NextCache ==
  /\ last.calls < MaxCacheCalls
  /\ (GetVc \/ CleanUp)

SpecCache == Init /\ [][NextCache]_vars

----------------------------------------------------------------------------
(* Properties of the resource cache (SpecCache)                            *)

\* The last call was get_vc and it returned normally
Ready == last.op = "get_vc" /\ ~last.exc

\* The network load_synthesizer builds for the cached checkpoint
NetworkOf(cpt, version, config) ==
  [cls |-> SynthesizerClass(version, Get(cpt.f0, 1)), config |-> cpt.config,
   weight |-> Some(cpt.weight), device |-> config]

\* The first min(n, N) rows of data
Prefix(data, n) == SubSeq(data, 1, Min(n, Len(data)))

\* C1: after a get_vc that returns normally, net_g is the network of the
\* cached checkpoint: its class is the one of the checkpoint's (version, f0),
\* it was constructed from the checkpoint's config and carries its weights.
C1_NetworkOfCachedCheckpoint ==
  Ready =>
    /\ pipeline.cpt # None
    /\ pipeline.net_g = Some(NetworkOf(pipeline.cpt[1], pipeline.version, pipeline.config))

\* C2: a get_vc that returns normally and was given a non-empty index path
\* other than the cached one has read that index (data and d are the new
\* index's) and has built the matching engine from the new index.
C2_IndexChangeRebuildsEngine ==
  (/\ Ready
   /\ last.file_index # None
   /\ last.file_index # last.pre.file_index)
  =>
    /\ Called(last.ev, "faiss.read_index")
    /\ pipeline.data = Some(IndexFiles[last.file_index[1]].vectors)
    /\ pipeline.d = Some(IndexFiles[last.file_index[1]].d)
    /\ Called(last.ev, "VC")
    /\ pipeline.vc # None
    /\ pipeline.vc[1].data = pipeline.data
    /\ pipeline.vc[1].d = pipeline.d

\* C3: after a get_vc that returns normally and was given no index path,
\* data, d and train_data are None and the matching engine is index-free.
C3_NoIndexClearsIndexState ==
  (Ready /\ last.file_index = None)
  =>
    /\ pipeline.data = None
    /\ pipeline.d = None
    /\ pipeline.train_data = None
    /\ pipeline.vc # None
    /\ pipeline.vc[1].data = None
    /\ pipeline.vc[1].d = None
    /\ pipeline.vc[1].train_data = None

\* C4: a get_vc with the arguments of the get_vc before it, which returned
\* normally, loads no checkpoint, reads no index, builds no network and no
\* matching engine, returns normally and leaves the instance as it was.
C4_RepeatedGetVcIsIdle ==
  [][(/\ last.op = "get_vc"
      /\ ~last.exc
      /\ last'.op = "get_vc"
      /\ last'.weight_root = last.weight_root
      /\ last'.file_index = last.file_index
      /\ last'.training_data_size = last.training_data_size)
     =>
      /\ last'.ev = <<>>
      /\ ~last'.exc
      /\ pipeline' = pipeline]_vars

\* C4 witness: a second get_vc with the same arguments has returned
C4_Witness ==
  /\ Ready
  /\ last.again
  /\ last.file_index # None
  /\ pipeline.person = Some(last.weight_root)
  /\ pipeline.data # None

\* The call in the step is a get_vc that returns normally and changes only
\* training_data_size: checkpoint path and index path are the cached ones,
\* the index path is not None
OnlySizeChanges ==
  /\ last'.op = "get_vc"
  /\ ~last'.exc
  /\ pipeline.person = Some(last'.weight_root)
  /\ last'.file_index # None
  /\ pipeline.file_index = last'.file_index
  /\ pipeline.training_data_size # Some(last'.training_data_size)

\* C5: a get_vc that returns normally and changes only training_data_size
\* does not read the index, leaves data and d as they were, sets train_data
\* to the prefix of data for the new size and replaces the matching engine
\* by one built in this call from (data, d, the new train_data).
C5_SizeChangeRecomputesTrainData ==
  [][OnlySizeChanges =>
      /\ ~Called(last'.ev, "faiss.read_index")
      /\ ~Called(last'.ev, "torch.load")
      /\ pipeline'.data = pipeline.data
      /\ pipeline'.d = pipeline.d
      /\ pipeline'.data # None
      /\ pipeline'.train_data = Some(Prefix(pipeline.data[1], last'.training_data_size))
      /\ Called(last'.ev, "VC")
      /\ pipeline'.vc = Some(VC(pipeline'.tgt_sr, pipeline'.config, pipeline'.data,
                                pipeline'.d, pipeline'.train_data))]_vars

\* C5 witness: such a call has returned, with an engine built before it
C5_Witness ==
  /\ Ready
  /\ last.pre.person = Some(last.weight_root)
  /\ last.file_index # None
  /\ last.pre.file_index = last.file_index
  /\ last.pre.training_data_size # None
  /\ last.pre.training_data_size # Some(last.training_data_size)
  /\ Len(pipeline.train_data[1]) < Len(pipeline.data[1])

\* C6: after a get_vc that returns normally and was given an index path,
\* train_data is the first min(training_data_size, N) rows of data, for the
\* training_data_size of that call.
C6_TrainDataIsPrefixOfData ==
  (Ready /\ last.file_index # None)
  =>
    /\ pipeline.data # None
    /\ pipeline.train_data = Some(Prefix(pipeline.data[1], last.training_data_size))

\* C7: after clean_up every cached reference is None, and a get_vc with
\* valid paths that follows it returns normally, having made the calls and
\* reached the state the same get_vc makes and reaches on a new instance.
C7_GetVcAfterCleanUpAsNew ==
  [][(/\ last.op = "clean_up"
      /\ last'.op = "get_vc"
      /\ last'.weight_root \in DOMAIN CheckpointFiles
      /\ (last'.file_index = None \/ last'.file_index[1] \in DOMAIN IndexFiles))
     =>
      LET new == get_vc(RVCPipelineInit, last'.weight_root, last'.file_index,
                        last'.training_data_size, TRUE)
      IN /\ \A f \in DOMAIN pipeline \ {"config", "debug_rvc"} : pipeline[f] = None
         /\ ~last'.exc
         /\ last'.ev = new.ev
         /\ \A f \in DOMAIN pipeline \ {"config", "debug_rvc"} : pipeline'[f] = new.s[f]]_vars

----------------------------------------------------------------------------
(* Properties of the conversion (Spec)                                     *)

\* The recursive calls among the calls ev, in order
ChunkCalls(ev) == SelectSeq(ev, LAMBDA x : x.e = "voice_conversion")

\* C8: in a segmented voice_conversion, if the conversion of chunk k fails,
\* no later chunk is converted, merge_audio is not called, the files of the
\* chunks before k were written, and the call returns a failure that is
\* neither the segmentation failure nor a success.
C8_ChunkFailureAbortsBatch ==
  (last.op = "voice_conversion")
  =>
    \A k \in 1..Len(ChunkCalls(last.ev)) :
      ChunkCalls(last.ev)[k].a.ret = NoneNone
      =>
        /\ Len(ChunkCalls(last.ev)) = k
        /\ ~Called(last.ev, "merge_audio")
        /\ \A j \in 1..(k - 1) : Returned(last.ev, "sf.write", j)
        /\ last.ret.sr = None
        /\ last.ret # SplitError
        /\ last.ret # NoneNone

\* C9: no call of voice_conversion raises to its caller; a call in which a
\* step of the outer call raised returns (None, None), and every return is
\* that, a success or the segmentation failure.
C9_ConvertNeverRaises ==
  (last.op = "voice_conversion")
  =>
    /\ ~last.exc
    /\ (\E i \in DOMAIN last.ev : last.ev[i].at = 0 /\ last.ev[i].raised) => last.ret = NoneNone
    /\ \/ last.ret = NoneNone
       \/ last.ret = SplitError
       \/ (last.ret.sr # None /\ last.ret.audio # None)

\* C10: no call of infer_pipeline raises to its caller.
C10_InferPipelineNeverRaises ==
  (last.op = "infer_pipeline") => ~last.exc

\* The last call was a voice_conversion in which the splitter was invoked and
\* reported failure
SplitterFailed ==
  /\ last.op = "voice_conversion"
  /\ Called(last.ev, "process_audio")
  /\ last.E.split.result = "Error"

\* C11: a voice_conversion whose splitter reports failure returns the
\* segmentation-error sentinel, which is neither (None, None) nor a success,
\* right after the splitter: no chunk call, no synthesis, no merge, no
\* resample and no write happen in the call.
C11_SplitFailureReturnsSentinel ==
  SplitterFailed =>
    /\ ~last.exc
    /\ last.ret = SplitError
    /\ last.ret # NoneNone
    /\ last.ret.sr = None /\ last.ret.audio = None
    /\ last.ev[Len(last.ev)].e = "process_audio"
    /\ \A e \in {"voice_conversion", "vc.pipeline", "merge_audio", "os.remove",
                 "librosa.resample", "sf.write"} : ~Called(last.ev, e)

\* C11 witness: such a call has returned, on an instance that was ready
C11_Witness ==
  /\ SplitterFailed
  /\ pipeline.vc # None
  /\ pipeline.net_g # None
  /\ last.a.split_audio = PyStr("True")

\* The target sample rate of the cached checkpoint: cpt["config"][-1]
CheckpointRate == pipeline.cpt[1].config[4]

\* The last call was a voice_conversion that took the direct branch and
\* returned a sample rate and a waveform
DirectSuccess ==
  /\ last.op = "voice_conversion"
  /\ last.a.split_audio # PyStr("True")
  /\ ~last.exc
  /\ last.ret.sr # None
  /\ last.ret.audio # None

\* C12: a successful direct voice_conversion whose resample_sr is at least
\* 16000 and is not the checkpoint's target rate returns resample_sr as its
\* rate and a waveform that librosa.resample brought from the checkpoint's
\* rate to resample_sr.
C12_DirectResampleApplied ==
  (/\ DirectSuccess
   /\ last.a.resample_sr >= SourceRate
   /\ last.a.resample_sr # CheckpointRate)
  =>
    /\ last.ret.sr = Some(last.a.resample_sr)
    /\ Returned(last.ev, "librosa.resample", 0)
    /\ last.ret.audio[1].resampled = Some(<<Some(CheckpointRate), last.a.resample_sr>>)

\* The usual request to infer_pipeline with no index path: None, or spaces
NoIndexRequests ==
  {[InferBase EXCEPT !.index_path = None], [InferBase EXCEPT !.index_path = Some(<<" ">>)]}

\* What the voice_conversion called by the last infer_pipeline returned
ConvertResults == SelectSeq(last.ev, LAMBDA x : x.e = "voice_conversion" /\ x.at = 0)

\* C13: an infer_pipeline request that is the usual one but for an index
\* path of None or of spaces, with get_vc returning and no collaborator
\* raising, reaches vc.pipeline and its voice_conversion returns a sample
\* rate and a waveform.
C13_NoIndexRequestConverts ==
  (/\ last.op = "infer_pipeline"
   /\ last.q \in NoIndexRequests
   /\ last.E.fault = None
   /\ ~last.exc)
  =>
    /\ Returned(last.ev, "vc.pipeline", 0)
    /\ Len(ConvertResults) = 1
    /\ ConvertResults[1].a.ret.sr # None
    /\ ConvertResults[1].a.ret.audio # None

\* C14: after a get_vc that returns normally, the matching engine was
\* constructed with the target sample rate of the cached checkpoint.
C14_EngineBuiltForCheckpointRate ==
  Ready =>
    /\ pipeline.cpt # None
    /\ pipeline.vc # None
    /\ pipeline.vc[1].tgt_sr = Some(CheckpointRate)

\* What vc.pipeline was given in the calls ev, for the outer call
PipelineCalls(ev) == SelectSeq(ev, LAMBDA x : x.e = "vc.pipeline" /\ x.at = 0)

\* C15: a successful direct voice_conversion with resample_sr = 0 hands
\* vc.pipeline the target rate of the cached checkpoint and returns that
\* rate, whatever calls the instance served before.
C15_TargetRateIsPerCall ==
  (DirectSuccess /\ last.a.resample_sr = 0)
  =>
    /\ Len(PipelineCalls(last.ev)) = 1
    /\ PipelineCalls(last.ev)[1].a.tgt_sr = Some(CheckpointRate)
    /\ last.ret.sr = Some(CheckpointRate)

\* The last call was a voice_conversion, or an infer_pipeline with its one
\* voice_conversion
Converted == last.op \in {"voice_conversion", "infer_pipeline"}

\* The recursive calls among the calls ev, in order
RecursiveCalls(ev) == SelectSeq(ev, LAMBDA x : x.e = "voice_conversion" /\ x.at >= 1)

\* C16: within one top-level voice_conversion the splitter is called at most
\* once and only by the top-level call; every recursive call runs with
\* split_audio False, makes no call of the splitter, of the merge or of
\* itself, and returns a direct result; there are at most as many recursive
\* calls as chunk files, and the top-level call ends.
C16_RecursionDepthOne ==
  Converted =>
    /\ Len(SelectSeq(last.ev, LAMBDA x : x.e = "process_audio")) <= 1
    /\ \A i \in DOMAIN last.ev :
         last.ev[i].at >= 1 =>
           last.ev[i].e \in {"load_audio", "load_embedding", "vc.pipeline",
                             "librosa.resample", "sf.write", "voice_conversion"}
    /\ \A k \in DOMAIN RecursiveCalls(last.ev) :
         /\ RecursiveCalls(last.ev)[k].at = k
         /\ RecursiveCalls(last.ev)[k].a.args.split_audio = PyBool(FALSE)
         /\ RecursiveCalls(last.ev)[k].a.ret \notin {SplitError, BatchError, NoReturn}
    /\ Len(RecursiveCalls(last.ev)) <= last.E.split.chunks
    /\ (last.op = "voice_conversion" => (last.exc \/ last.ret # NoReturn))

\* C16 witness: a top-level call has made two recursive calls and merged
C16_Witness ==
  /\ last.op = "voice_conversion"
  /\ Len(RecursiveCalls(last.ev)) = 2
  /\ Returned(last.ev, "merge_audio", 0)
  /\ last.ret.sr # None

\* The calls of load_embedding among the calls ev
ExtractorLoads(ev) == SelectSeq(ev, LAMBDA x : x.e = "load_embedding")

\* C17: a call of any method makes at most one call of load_embedding, and
\* one that returned leaves an extractor on the instance; once the instance
\* holds an extractor, every call but clean_up makes no call of
\* load_embedding and leaves that extractor in place, whatever embedder it
\* names.
C17_ExtractorLoadedOnce ==
  [][/\ Len(ExtractorLoads(last'.ev)) <= 1
     /\ (\E i \in DOMAIN last'.ev : last'.ev[i].e = "load_embedding" /\ ~last'.ev[i].raised)
          => pipeline'.hubert_model # None
     /\ (pipeline.hubert_model # None /\ last'.op # "clean_up")
          => /\ ExtractorLoads(last'.ev) = <<>>
             /\ pipeline'.hubert_model = pipeline.hubert_model]_vars

\* C17 witness: a conversion naming another embedder has succeeded with the
\* extractor an earlier call loaded
C17_Witness ==
  /\ last.op = "voice_conversion"
  /\ last.a.embedder_model = PyStr("hubert")
  /\ last.ret.sr # None
  /\ ExtractorLoads(last.ev) = <<>>
  /\ pipeline.hubert_model # None
  /\ pipeline.hubert_model[1].model = PyStr("contentvec")

\* C18: an infer_pipeline that logs "Conversion completed" is one whose
\* voice_conversion returned a sample rate and a waveform.
C18_CompletionLoggedOnSuccessOnly ==
  (last.op = "infer_pipeline" /\ Called(last.ev, "logger.debug"))
  =>
    /\ Len(ConvertResults) = 1
    /\ ConvertResults[1].a.ret.sr # None
    /\ ConvertResults[1].a.ret.audio # None

\* The checkpoint load_person caches when it loads the artifact at path
\* (lines 166-168)
CheckpointOf(path) ==
  [config |-> [CheckpointFiles[path].config EXCEPT ![2] = CheckpointFiles[path].emb_g],
   weight |-> CheckpointFiles[path].weight, f0 |-> CheckpointFiles[path].f0,
   version |-> CheckpointFiles[path].version]

\* C19: in every state, a cached checkpoint path is the path the cached
\* checkpoint was loaded from, and a cached index path is the path data and
\* d were read from.
C19_KeyCommittedWithResource ==
  /\ pipeline.person # None =>
       /\ pipeline.person[1] \in DOMAIN CheckpointFiles
       /\ pipeline.cpt = Some(CheckpointOf(pipeline.person[1]))
  /\ pipeline.file_index # None =>
       /\ pipeline.file_index[1] \in DOMAIN IndexFiles
       /\ pipeline.data = Some(IndexFiles[pipeline.file_index[1]].vectors)
       /\ pipeline.d = Some(IndexFiles[pipeline.file_index[1]].d)

\* The decoding parameters a recursive call is to share with its caller
DecodingParams ==
  {"f0_method", "index_rate", "resample_sr", "rms_mix_rate", "protect", "hop_length",
   "f0autotune", "filter_radius", "embedder_model"}

\* C20: every recursive call of a segmented voice_conversion is bound to the
\* decoding parameters of the outer call: its pitch shift is the outer
\* call's, coerced; its index path is the outer call's, normalised; every
\* other decoding parameter, filter_radius and embedder_model included, is
\* the outer call's.
C20_ChunkCallSharesParams ==
  (last.op = "voice_conversion")
  =>
    \A k \in DOMAIN RecursiveCalls(last.ev) :
      /\ RecursiveCalls(last.ev)[k].a.args.f0_up_key = int(last.a.f0_up_key)[1]
      /\ RecursiveCalls(last.ev)[k].a.args.file_index
           = Some(normalize_file_index(last.a.file_index[1]))
      /\ \A n \in DecodingParams : RecursiveCalls(last.ev)[k].a.args[n] = last.a[n]

=============================================================================
